---- MODULE Spec2Model ----
(***************************************************************************)
(* Model of raft_pysync/journal.py: MemoryJournal, ResizableFile,          *)
(* MetaStorer and FileJournal.                                             *)
(*                                                                         *)
(* Files are sequences of bytes (0..255); byte offset o of the source is   *)
(* position o+1 of the sequence.  The mapping of ResizableFile is shared   *)
(* with its backing file, so one sequence stands for both, and a process   *)
(* that stops leaves in the file every write it has made.                  *)
(***************************************************************************)
EXTENDS Integers, Sequences, FiniteSets, TLC

---------------------------------------------------------------------------
(* Bounds of the model *)

\* The longest log: add is called on logs of fewer entries only.
MaxLen == 2

\* ResizableFile on its own: the largest offset written at, and the
\* capacity from which on no further write is made.
MaxOffset == 5
MaxCapacity == 6

\* The number of setRaftCommitIndex calls made while the log is in use.
MaxSets == 1

\* The longest log a tail truncation is run on; the logs run on have up to
\* two entries fewer.
MaxTruncLen == 12

\* The longest log when commands that make the file grow are added.
MaxGrowLen == 2

---------------------------------------------------------------------------
(* Python values *)

Min(a, b) == IF a < b THEN a ELSE b
Max(a, b) == IF a > b THEN a ELSE b

Zeros(n) == [i \in 1..n |-> 0]

\* seq[a:b] for 0 <= a, 0 <= b: the bounds are clipped to the length.
PySlice(s, a, b) == SubSeq(s, a + 1, Min(b, Len(s)))

\* list[item]: a position in 0..len-1 counts from the front, one in
\* -len..-1 counts from the end, any other raises IndexError.
list_getitem(list, item) ==
    IF item >= 0 /\ item < Len(list)
    THEN [raised |-> FALSE, value |-> <<list[item + 1]>>]
    ELSE IF item < 0 /\ item >= 0 - Len(list)
    THEN [raised |-> FALSE, value |-> <<list[Len(list) + item + 1]>>]
    ELSE [raised |-> TRUE, value |-> <<>>]

\* struct.pack("<I", n) for 0 <= n < 2^31: four bytes, least significant
\* first.
pack_I(n) ==
    << n % 256, (n \div 256) % 256, (n \div 65536) % 256,
       (n \div 16777216) % 256 >>

\* struct.unpack("<I", b) raises struct.error unless b has four bytes.
unpack_I_raises(b) == Len(b) # 4

\* struct.unpack("<I", b)[0]
unpack_I(b) == ((b[4] * 256 + b[3]) * 256 + b[2]) * 256 + b[1]

\* struct.pack("<Q", n) for 0 <= n < 2^31: eight bytes, least significant
\* first.
pack_Q(n) == pack_I(n) \o <<0, 0, 0, 0>>

\* struct.unpack("<Q", b)[0] of eight bytes; a value of 2^31 or more is
\* written as its eight bytes.
unpack_Q(b) ==
    IF b[4] < 128 /\ SubSeq(b, 5, 8) = <<0, 0, 0, 0>>
    THEN unpack_I(SubSeq(b, 1, 4))
    ELSE b

\* struct.pack("<QQ", idx, term)
pack_QQ(idx, term) == pack_Q(idx) \o pack_Q(term)

\* struct.unpack("<QQ", b) raises struct.error unless b has sixteen bytes.
unpack_QQ_raises(b) == Len(b) # 16

\* struct.unpack("<QQ", b)
unpack_QQ(b) == << unpack_Q(SubSeq(b, 1, 8)), unpack_Q(SubSeq(b, 9, 16)) >>

\* to_bytes(command) of a command that is bytes already.
to_bytes(command) == command

---------------------------------------------------------------------------
(* Files: a path holds no file, or a file of some bytes, which the process *)
(* can read or cannot                                                       *)

NoFile == [exists |-> FALSE, readable |-> FALSE, data |-> <<>>]
FileOf(bytes) == [exists |-> TRUE, readable |-> TRUE, data |-> bytes]
UnreadableFileOf(bytes) == [exists |-> TRUE, readable |-> FALSE, data |-> bytes]

---------------------------------------------------------------------------
(* ResizableFile *)

initialSize == 1024

\* int(size * resizeFactor); the factor is the fraction factor[1]/factor[2].
ScaledSize(size, factor) == (size * factor[1]) \div factor[2]

\* resizeFactor = 2.0
DefaultResizeFactor == <<2, 1>>

\* mmap.resize(newSize): the mapping and its file get exactly newSize bytes.
mm_resize(mm, newSize) ==
    IF newSize >= Len(mm) THEN mm \o Zeros(newSize - Len(mm))
    ELSE SubSeq(mm, 1, newSize)

\* __extend(bytesToAdd): close, append zero bytes to the file, map it again.
RF_extend(mm, bytesToAdd) == mm \o Zeros(Max(bytesToAdd, 0))

\* What the growth in write (or in __init__) leaves mapped: the in-place
\* resize, or, when the platform refuses it (SystemError), __extend.
RF_grow(mm, newSize, inPlace) ==
    IF inPlace THEN mm_resize(mm, newSize)
    ELSE RF_extend(mm, newSize - Len(mm))

\* mm[offset : offset + size] = values raises IndexError when the slice,
\* clipped to the mapping, has another length than values.
mm_setslice_raises(mm, offset, values) ==
    Len(PySlice(mm, offset, offset + Len(values))) # Len(values)

\* mm[offset : offset + size] = values
mm_setslice(mm, offset, values) ==
    SubSeq(mm, 1, offset) \o values
        \o SubSeq(mm, offset + Len(values) + 1, Len(mm))

\* ResizableFile.write(offset, values): whether it raises, and the mapping
\* it leaves (grown, then assigned unless the assignment raises).
RF_write(mm, offset, values, factor, inPlace) ==
    LET grown == IF offset + Len(values) > Len(mm)
                 THEN RF_grow(mm, ScaledSize(Len(mm), factor), inPlace)
                 ELSE mm
    IN  IF mm_setslice_raises(grown, offset, values)
        THEN [raised |-> TRUE, mm |-> grown]
        ELSE [raised |-> FALSE, mm |-> mm_setslice(grown, offset, values)]

\* ResizableFile.read(offset, size)
RF_read(mm, offset, size) == PySlice(mm, offset, offset + size)

\* ResizableFile.__init__ on the file found at fileName: whether it raises
\* (an empty file cannot be mapped), and the mapping it leaves.
RF_init(found, initSize, defaultContent, inPlace) ==
    LET onDisk == IF found.exists THEN found.data ELSE defaultContent.data
    IN  IF Len(onDisk) = 0 THEN [raised |-> TRUE, mm |-> onDisk]
        ELSE IF Len(onDisk) < initSize
        THEN [raised |-> FALSE, mm |-> RF_grow(onDisk, initSize, inPlace)]
        ELSE [raised |-> FALSE, mm |-> onDisk]

---------------------------------------------------------------------------
(* MetaStorer *)

\* The metadata mapping: a function from the keys it holds.
EmptyMeta == [k \in {} |-> 0]
MetaWith(v) == [k \in {"raftCommitIndex"} |-> v]

\* dumps(meta): the serialized mapping (number of keys, then the value).
dumps(m) == IF DOMAIN m = {} THEN <<0>> ELSE <<1, m["raftCommitIndex"]>>

\* loads(bytes) raises on bytes that dumps does not produce.
loads_raises(b) == ~(b = <<0>> \/ (Len(b) = 2 /\ b[1] = 1))

\* loads(bytes)
loads(b) == IF b = <<0>> THEN EmptyMeta ELSE MetaWith(b[2])

\* A getMeta that makes a mapping of a file that loads cannot parse.
getMeta_keeps_garbage(f) ==
    IF ~f.exists \/ ~f.readable THEN EmptyMeta
    ELSE IF loads_raises(f.data) THEN MetaWith(0)
    ELSE loads(f.data)

\* MetaStorer.getMeta(): the empty mapping when open, read or loads raises.
getMeta(f) ==
    IF ~f.exists \/ ~f.readable \/ loads_raises(f.data) THEN EmptyMeta
    ELSE loads(f.data)

---------------------------------------------------------------------------
(* Journal file format *)

JOURNAL_FORMAT_VERSION == 1
APP_NAME == <<82, 97, 102, 116, 80, 121, 83, 121, 110, 99>>  \* b"RaftPySync"
APP_VERSION == <<48, 46, 49>>                                \* a version string
NAME_SIZE == 24
VERSION_SIZE == 8
FIRST_RECORD_OFFSET == NAME_SIZE + VERSION_SIZE + 4 + 4
LAST_RECORD_OFFSET_OFFSET == NAME_SIZE + VERSION_SIZE + 4

\* FileJournal.__getDefaultHeader()
getDefaultHeader ==
    LET appName == APP_NAME \o Zeros(NAME_SIZE - Len(APP_NAME))
        appVersion == APP_VERSION \o Zeros(VERSION_SIZE - Len(APP_VERSION))
    IN  appName \o appVersion
            \o pack_I(JOURNAL_FORMAT_VERSION) \o pack_I(FIRST_RECORD_OFFSET)

\* FileJournal.__getLastRecordOffset()
getLastRecordOffset(mm) == unpack_I(RF_read(mm, LAST_RECORD_OFFSET_OFFSET, 4))

\* A header write that writes nothing.
setLastRecordOffset_stale(mm, offset) == mm

\* FileJournal.__setLastRecordOffset(offset): the mapping it leaves.
setLastRecordOffset(mm, offset) ==
    RF_write(mm, LAST_RECORD_OFFSET_OFFSET, pack_I(offset),
             DefaultResizeFactor, TRUE).mm

\* The body of a record with idx and term in the wrong order.
CmdData_swapped(entry) == pack_QQ(entry[3], entry[2]) \o to_bytes(entry[1])

\* The bytes of the body of a record, as add builds them:
\* struct.pack("<QQ", idx, term) + to_bytes(command).
CmdData(entry) == pack_QQ(entry[2], entry[3]) \o to_bytes(entry[1])

\* cmdLenData + cmdData + cmdLenData
RecordBytes(cmdData) == pack_I(Len(cmdData)) \o cmdData \o pack_I(Len(cmdData))

\* The replay loop of FileJournal.__init__ from currentOffset on: whether it
\* raises, the entries it appends to acc and the offset it ends at.
RECURSIVE Replay(_, _, _, _)
Replay(mm, currentOffset, lastRecordOffset, acc) ==
    IF ~(currentOffset < lastRecordOffset)
    THEN [raised |-> FALSE, journal |-> acc, currentOffset |-> currentOffset]
    ELSE IF unpack_I_raises(RF_read(mm, currentOffset, 4))
    THEN [raised |-> TRUE, journal |-> acc, currentOffset |-> currentOffset]
    ELSE LET nextRecordSize == unpack_I(RF_read(mm, currentOffset, 4))
             nextRecordData == RF_read(mm, currentOffset + 4, nextRecordSize)
             command == PySlice(nextRecordData, 16, Len(nextRecordData))
             head == PySlice(nextRecordData, 0, 16)
         IN  IF unpack_QQ_raises(head)
             THEN [raised |-> TRUE, journal |-> acc,
                   currentOffset |-> currentOffset]
             ELSE Replay(mm, currentOffset + nextRecordSize + 8,
                         lastRecordOffset,
                         Append(acc, <<command, unpack_QQ(head)[1],
                                       unpack_QQ(head)[2]>>))

\* What FileJournal.__init__ reads back from a mapped journal file.
ReplayFile(mm) ==
    IF unpack_I_raises(RF_read(mm, LAST_RECORD_OFFSET_OFFSET, 4))
    THEN [raised |-> TRUE, journal |-> <<>>, currentOffset |-> FIRST_RECORD_OFFSET]
    ELSE Replay(mm, FIRST_RECORD_OFFSET, getLastRecordOffset(mm), <<>>)

---------------------------------------------------------------------------
(* Inputs of the model *)

\* b"x" and b"yy"
CmdX == <<120>>
CmdYY == <<121, 121>>

\* The entries (command, idx, term) handed to add.
Entries == { <<CmdX, 1, 1>>, <<CmdYY, 2, 1>> }

\* The values handed to setRaftCommitIndex.
CommitValues == {1, 7, 9}

---------------------------------------------------------------------------
(* State *)

VARIABLES
    file,           \* the journal file (and the mapping of it)
    metaFile,       \* the file at journalFile + ".meta"
    tmpFile,        \* the file at journalFile + ".meta.tmp"
    pc,             \* where the process is: "closed" (no FileJournal
                    \* object), "ready" (between calls), inside a call, or
                    \* "raised" (the last call raised)
    journal,        \* FileJournal.__journal
    currentOffset,  \* FileJournal.__currentOffset
    meta,           \* FileJournal.__meta
    metaSaved,      \* FileJournal.__metaSaved
    frame,          \* the local variables of the running call
    mem,            \* MemoryJournal.__journal
    got,            \* the last __getitem__ on both journals
    rf,             \* a ResizableFile on its own: its mapping, its
                    \* resizeFactor and its last write
    hist,           \* the log the completed calls have built
    last,           \* the last call on the log: its name and argument
                    \* (for the constructor: 1 when it found the file)
    stopped,        \* where the process was when it last stopped
    onlyAdds,       \* every call on the log since the file was created was
                    \* an add, and the process never stopped inside a call
    durable,        \* the commit index stored by the last completed tick
                    \* that found the metadata dirty (1 before any)
    lastSet,        \* the last setRaftCommitIndex of this process, if any
    nsets           \* the number of setRaftCommitIndex calls, up to MaxSets

vars == <<file, metaFile, tmpFile, pc, journal, currentOffset, meta,
          metaSaved, frame, mem, got, rf, hist, last, stopped, onlyAdds,
          durable, lastSet, nsets>>

NoFrame ==
    [cmdData |-> <<>>, currentOffset |-> 0, removedEntries |-> 0,
     entriesToRemove |-> 0, journal |-> <<>>, inFor |-> FALSE]

NoGot == [called |-> FALSE, item |-> 0, fileList |-> <<>>, memList |-> <<>>,
          file |-> list_getitem(<<>>, 0), mem |-> list_getitem(<<>>, 0)]

NoRF == [open |-> FALSE, mm |-> <<>>, factor |-> <<2, 1>>, wrote |-> FALSE,
         offset |-> 0, values |-> <<>>, raised |-> FALSE, inPlace |-> TRUE]

NoCall == [op |-> "none", arg |-> 0, entry |-> <<>>, again |-> FALSE]

Call(op, arg) ==
    [op |-> op, arg |-> arg, entry |-> <<>>,
     again |-> (op = "clear" /\ last.op = "clear")]

---------------------------------------------------------------------------
(* MemoryJournal *)

\* MemoryJournal.add
MJ_add(list, entry) == Append(list, entry)

\* MemoryJournal.clear
MJ_clear(list) == <<>>

\* MemoryJournal.deleteEntriesFrom: del list[entryFrom:]
MJ_deleteEntriesFrom(list, entryFrom) == PySlice(list, 0, entryFrom)

\* A deleteEntriesTo that keeps the entry before position entryTo.
MJ_deleteEntriesTo_early(list, entryTo) ==
    PySlice(list, Max(entryTo - 1, 0), Len(list))

\* MemoryJournal.deleteEntriesTo: list[entryTo:]
MJ_deleteEntriesTo(list, entryTo) == PySlice(list, entryTo, Len(list))

\* MemoryJournal.__getitem__
MJ_getitem(list, item) == list_getitem(list, item)

---------------------------------------------------------------------------
(* FileJournal *)

\* A __getitem__ that answers a position out of range with the last entry.
FJ_getitem_clamped(list, idx) ==
    IF list = <<>> \/ (idx >= 0 /\ idx < Len(list)) THEN list_getitem(list, idx)
    ELSE list_getitem(list, Len(list) - 1)

\* FileJournal.__getitem__
FJ_getitem(list, idx) == list_getitem(list, idx)

\* FileJournal.getRaftCommitIndex: meta.get("raftCommitIndex", 1)
getRaftCommitIndex(m) ==
    IF "raftCommitIndex" \in DOMAIN m THEN m["raftCommitIndex"] ELSE 1

\* A constructor that does not load the metadata file.
FJ_init_meta_unread(f) == EmptyMeta

\* The metadata FileJournal.__init__ starts with.
FJ_init_meta(f) == getMeta(f)

\* FileJournal.__init__ (and MemoryJournal.__init__ beside it).
FJ_init(inPlace) ==
    /\ pc = "closed"
    /\ LET opened == RF_init(file, initialSize, FileOf(getDefaultHeader), inPlace)
           replay == ReplayFile(opened.mm)
           fails == opened.raised \/ replay.raised
       IN  /\ file' = FileOf(opened.mm)
           /\ pc' = IF fails THEN "raised" ELSE "ready"
           /\ journal' = IF fails THEN <<>> ELSE replay.journal
           /\ currentOffset' = IF fails THEN 0 ELSE replay.currentOffset
           /\ meta' = IF fails THEN EmptyMeta ELSE FJ_init_meta(metaFile)
           /\ hist' = IF stopped = "ready" \/ fails THEN hist ELSE replay.journal
           /\ onlyAdds' = IF file.exists THEN onlyAdds /\ stopped = "ready"
                          ELSE TRUE
    /\ metaSaved' = TRUE
    /\ mem' = <<>>
    /\ last' = Call("open", IF file.exists THEN 1 ELSE 0)
    /\ lastSet' = [has |-> FALSE, v |-> 0]
    /\ stopped' = "ready"
    /\ UNCHANGED <<metaFile, tmpFile, frame, got, rf, durable, nsets>>

\* A first half of add that stores the new offset in the header and writes
\* no record.
add_record_header_first(entry, inPlace) ==
    LET cmdData == CmdData(entry)
    IN  /\ journal' = Append(journal, entry)
        /\ file' = FileOf(setLastRecordOffset(file.data,
                       currentOffset + Len(RecordBytes(cmdData))))
        /\ frame' = [frame EXCEPT !.cmdData = RecordBytes(cmdData)]
        /\ pc' = "add"

\* The first half of FileJournal.add: the entry joins the mirror and its
\* record is written at the append cursor.
add_record(entry, inPlace) ==
    LET cmdData == CmdData(entry)
        written == RF_write(file.data, currentOffset, RecordBytes(cmdData),
                            DefaultResizeFactor, inPlace)
    IN  /\ journal' = Append(journal, entry)
        /\ file' = FileOf(written.mm)
        /\ frame' = [frame EXCEPT !.cmdData = RecordBytes(cmdData)]
        /\ pc' = IF written.raised THEN "raised" ELSE "add"

\* The second half of add without the write of the header.
add_offset_unsaved ==
    /\ currentOffset' = currentOffset + Len(frame.cmdData)
    /\ UNCHANGED <<journal, file>>

\* The second half of FileJournal.add: the cursor advances and is stored
\* in the header.
add_offset ==
    /\ currentOffset' = currentOffset + Len(frame.cmdData)
    /\ file' = FileOf(setLastRecordOffset(file.data,
                                          currentOffset + Len(frame.cmdData)))
    /\ UNCHANGED journal

\* FileJournal.add(command, idx, term) is called.
add_call(entry, inPlace) ==
    /\ pc = "ready"
    /\ add_record(entry, inPlace)
    /\ mem' = MJ_add(mem, entry)
    /\ last' = [Call("add", 0) EXCEPT !.entry = <<entry>>]
    /\ UNCHANGED <<metaFile, tmpFile, currentOffset, meta, metaSaved, got, rf,
                   hist, stopped, onlyAdds, durable, lastSet, nsets>>

\* FileJournal.add(command, idx, term) is called with a record that does not
\* fit the mapping, and the growth in ResizableFile.write raises (the file
\* cannot be extended): the entry has joined the mirror, nothing is written.
add_call_grow_fails(entry) ==
    /\ pc = "ready"
    /\ currentOffset + Len(RecordBytes(CmdData(entry))) > Len(file.data)
    /\ journal' = Append(journal, entry)
    /\ pc' = "raised"
    /\ mem' = MJ_add(mem, entry)
    /\ last' = [Call("add", 0) EXCEPT !.entry = <<entry>>]
    /\ UNCHANGED <<file, metaFile, tmpFile, currentOffset, meta, metaSaved,
                   frame, got, rf, hist, stopped, onlyAdds, durable, lastSet,
                   nsets>>

\* FileJournal.add(command, idx, term) is called and the process ends while
\* the record is being copied into the mapping: its first n bytes are in
\* the file.
add_call_torn(entry, n) ==
    /\ pc = "ready"
    /\ n < Len(RecordBytes(CmdData(entry)))
    /\ currentOffset + Len(RecordBytes(CmdData(entry))) <= Len(file.data)
    /\ file' = FileOf(mm_setslice(file.data, currentOffset,
                                   SubSeq(RecordBytes(CmdData(entry)), 1, n)))
    /\ last' = [Call("add", 0) EXCEPT !.entry = <<entry>>]
    /\ stopped' = "add"
    /\ pc' = "closed"
    /\ journal' = <<>>
    /\ currentOffset' = 0
    /\ meta' = EmptyMeta
    /\ metaSaved' = TRUE
    /\ frame' = NoFrame
    /\ mem' = <<>>
    /\ UNCHANGED <<metaFile, tmpFile, got, rf, hist, onlyAdds, durable,
                   lastSet, nsets>>

\* FileJournal.add returns, to its caller or to the loop of deleteEntriesTo.
add_return ==
    /\ pc = "add"
    /\ add_offset
    /\ IF frame.inFor
       THEN /\ frame' = IF Len(frame.journal) > 1
                        THEN [frame EXCEPT !.cmdData = <<>>,
                                           !.journal = Tail(frame.journal)]
                        ELSE NoFrame
            /\ pc' = IF Len(frame.journal) > 1 THEN "deleteEntriesTo" ELSE "ready"
            /\ hist' = IF Len(frame.journal) > 1 THEN hist
                       ELSE MJ_deleteEntriesTo(hist, last.arg)
       ELSE /\ frame' = NoFrame
            /\ pc' = "ready"
            /\ hist' = hist \o last.entry
    /\ UNCHANGED <<metaFile, tmpFile, meta, metaSaved, mem, got, rf, last,
                   stopped, onlyAdds, durable, lastSet, nsets>>

\* A clear that leaves the header as it is.
clear_body_keeps_header ==
    /\ journal' = <<>>
    /\ file' = file
    /\ currentOffset' = FIRST_RECORD_OFFSET

\* The body of FileJournal.clear: the mirror is emptied, the header and the
\* cursor are set to the first record's offset.
clear_body ==
    /\ journal' = <<>>
    /\ file' = FileOf(setLastRecordOffset(file.data, FIRST_RECORD_OFFSET))
    /\ currentOffset' = FIRST_RECORD_OFFSET

\* A clear that marks the metadata as not saved.
clear_marks_unsaved ==
    /\ pc = "ready"
    /\ clear_body
    /\ mem' = MJ_clear(mem)
    /\ last' = Call("clear", 0)
    /\ hist' = <<>>
    /\ onlyAdds' = FALSE
    /\ metaSaved' = FALSE
    /\ UNCHANGED <<metaFile, tmpFile, pc, meta, frame, got, rf, stopped,
                   durable, lastSet, nsets>>

\* FileJournal.clear() is called and returns.
clear ==
    /\ pc = "ready"
    /\ clear_body
    /\ mem' = MJ_clear(mem)
    /\ last' = Call("clear", 0)
    /\ hist' = <<>>
    /\ onlyAdds' = FALSE
    /\ UNCHANGED <<metaFile, tmpFile, pc, meta, metaSaved, frame, got, rf,
                   stopped, durable, lastSet, nsets>>

\* FileJournal.deleteEntriesFrom(entryFrom) is called: the mirror is cut and
\* the walk back from the append cursor is set up.
deleteEntriesFrom_call(entryFrom) ==
    /\ pc = "ready"
    /\ frame' = [frame EXCEPT !.entriesToRemove = Len(journal) - entryFrom,
                              !.currentOffset = currentOffset,
                              !.removedEntries = 0]
    /\ journal' = PySlice(journal, 0, entryFrom)
    /\ pc' = "deleteEntriesFrom"
    /\ mem' = MJ_deleteEntriesFrom(mem, entryFrom)
    /\ last' = Call("deleteEntriesFrom", entryFrom)
    /\ onlyAdds' = FALSE
    /\ UNCHANGED <<file, metaFile, tmpFile, currentOffset, meta, metaSaved,
                   got, rf, hist, stopped, durable, lastSet, nsets>>

\* A step back that forgets the two size fields around the record.
StepBack_short(mm, offset) == offset - unpack_I(RF_read(mm, offset - 4, 4))

\* The offset one round of the walk of deleteEntriesFrom steps back to.
StepBack(mm, offset) == offset - (unpack_I(RF_read(mm, offset - 4, 4)) + 8)

\* A walk that never writes the header.
CheckpointDue_never(removedEntries) == FALSE

\* Whether a round of the walk writes the header: removedEntries % 10 == 0
CheckpointDue(removedEntries) == removedEntries % 10 = 0

\* One round of the while loop of deleteEntriesFrom: a step back over the
\* record that ends at the local offset, and the header written on every
\* tenth round.
deleteEntriesFrom_loop ==
    /\ pc = "deleteEntriesFrom"
    /\ frame.removedEntries < frame.entriesToRemove
    /\ LET offset == StepBack(file.data, frame.currentOffset)
           removed == frame.removedEntries + 1
       IN  /\ frame' = [frame EXCEPT !.currentOffset = offset,
                                     !.removedEntries = removed]
           /\ file' = IF CheckpointDue(removed)
                      THEN FileOf(setLastRecordOffset(file.data, offset))
                      ELSE file
    /\ UNCHANGED <<metaFile, tmpFile, pc, journal, currentOffset, meta,
                   metaSaved, mem, got, rf, hist, last, stopped, onlyAdds,
                   durable, lastSet, nsets>>

\* The end of deleteEntriesFrom: the cursor and the header take the offset
\* the walk has reached, and the call returns.
deleteEntriesFrom_return ==
    /\ pc = "deleteEntriesFrom"
    /\ ~(frame.removedEntries < frame.entriesToRemove)
    /\ currentOffset' = frame.currentOffset
    /\ file' = FileOf(setLastRecordOffset(file.data, frame.currentOffset))
    /\ frame' = NoFrame
    /\ pc' = "ready"
    /\ hist' = MJ_deleteEntriesFrom(hist, last.arg)
    /\ UNCHANGED <<metaFile, tmpFile, journal, meta, metaSaved, mem, got, rf,
                   last, stopped, onlyAdds, durable, lastSet, nsets>>

\* Keeping the entries after position entryTo, not from it on.
KeptEntries_late(list, entryTo) == PySlice(list, entryTo + 1, Len(list))

\* The entries deleteEntriesTo keeps: self.__journal[entryTo:]
KeptEntries(list, entryTo) == PySlice(list, entryTo, Len(list))

\* FileJournal.deleteEntriesTo(entryTo) is called: the entries to keep are
\* taken from the mirror and clear() runs; with nothing to keep, the call
\* returns.
deleteEntriesTo_call(entryTo) ==
    /\ pc = "ready"
    /\ LET keep == KeptEntries(journal, entryTo)
       IN  /\ frame' = [frame EXCEPT !.journal = keep, !.inFor = keep # <<>>]
           /\ pc' = IF keep = <<>> THEN "ready" ELSE "deleteEntriesTo"
           /\ hist' = IF keep = <<>> THEN MJ_deleteEntriesTo(hist, entryTo)
                      ELSE hist
    /\ clear_body
    /\ mem' = MJ_deleteEntriesTo(mem, entryTo)
    /\ last' = Call("deleteEntriesTo", entryTo)
    /\ onlyAdds' = FALSE
    /\ UNCHANGED <<metaFile, tmpFile, meta, metaSaved, got, rf, stopped,
                   durable, lastSet, nsets>>

\* One round of the for loop of deleteEntriesTo: add(*entry) is called.
deleteEntriesTo_loop(inPlace) ==
    /\ pc = "deleteEntriesTo"
    /\ add_record(frame.journal[1], inPlace)
    /\ UNCHANGED <<metaFile, tmpFile, currentOffset, meta, metaSaved, mem, got,
                   rf, hist, last, stopped, onlyAdds, durable, lastSet, nsets>>

\* FileJournal.setRaftCommitIndex(raftCommitIndex)
setRaftCommitIndex(raftCommitIndex) ==
    /\ pc = "ready"
    /\ meta' = MetaWith(raftCommitIndex)
    /\ metaSaved' = FALSE
    /\ lastSet' = [has |-> TRUE, v |-> raftCommitIndex]
    /\ nsets' = Min(nsets + 1, MaxSets)
    /\ UNCHANGED <<file, metaFile, tmpFile, pc, journal, currentOffset, frame,
                   mem, got, rf, hist, last, stopped, onlyAdds, durable>>

\* What onOneSecondTimer hands to storeMeta.
TimerMeta(m) == m

\* A tick that opens the metadata file itself for writing.
onOneSecondTimer_call_in_place ==
    /\ pc = "ready"
    /\ IF metaSaved
       THEN UNCHANGED <<metaFile, pc>>
       ELSE /\ metaFile' = FileOf(<<>>)
            /\ pc' = "storeMeta_write"
    /\ UNCHANGED <<file, tmpFile, journal, currentOffset, meta, metaSaved,
                   frame, mem, got, rf, hist, last, stopped, onlyAdds, durable,
                   lastSet, nsets>>

\* FileJournal.onOneSecondTimer() is called: with saved metadata it returns
\* at once; else storeMeta opens the temporary file for writing, which
\* leaves it empty.
onOneSecondTimer_call ==
    /\ pc = "ready"
    /\ IF metaSaved
       THEN UNCHANGED <<tmpFile, pc>>
       ELSE /\ tmpFile' = FileOf(<<>>)
            /\ pc' = "storeMeta_write"
    /\ UNCHANGED <<file, metaFile, journal, currentOffset, meta, metaSaved,
                   frame, mem, got, rf, hist, last, stopped, onlyAdds, durable,
                   lastSet, nsets>>

\* storeMeta writes the serialized metadata to the temporary file, flushes
\* and closes it.
storeMeta_write ==
    /\ pc = "storeMeta_write"
    /\ tmpFile' = FileOf(dumps(TimerMeta(meta)))
    /\ pc' = "storeMeta"
    /\ UNCHANGED <<file, metaFile, journal, currentOffset, meta, metaSaved,
                   frame, mem, got, rf, hist, last, stopped, onlyAdds, durable,
                   lastSet, nsets>>

\* A failed move after which the metadata count as saved all the same.
storeMeta_move_fails_saved ==
    /\ pc = "storeMeta"
    /\ metaSaved' = TRUE
    /\ pc' = "tickRaised"
    /\ UNCHANGED <<file, metaFile, tmpFile, journal, currentOffset, meta, frame,
                   mem, got, rf, hist, last, stopped, onlyAdds, durable,
                   lastSet, nsets>>

\* shutil.move raises (the rename fails): nothing is moved, the error leaves
\* storeMeta and onOneSecondTimer before the metadata are marked as saved.
storeMeta_move_fails ==
    /\ pc = "storeMeta"
    /\ pc' = "tickRaised"
    /\ UNCHANGED <<file, metaFile, tmpFile, journal, currentOffset, meta,
                   metaSaved, frame, mem, got, rf, hist, last, stopped,
                   onlyAdds, durable, lastSet, nsets>>

\* The caller of onOneSecondTimer has got the error and goes on.
onOneSecondTimer_raised ==
    /\ pc = "tickRaised"
    /\ pc' = "ready"
    /\ UNCHANGED <<file, metaFile, tmpFile, journal, currentOffset, meta,
                   metaSaved, frame, mem, got, rf, hist, last, stopped,
                   onlyAdds, durable, lastSet, nsets>>

\* shutil.move of the temporary file over the metadata file, after which
\* the metadata count as saved and onOneSecondTimer returns.
storeMeta_move ==
    /\ pc = "storeMeta"
    /\ metaFile' = tmpFile
    /\ tmpFile' = NoFile
    /\ metaSaved' = TRUE
    /\ pc' = "ready"
    /\ durable' = getRaftCommitIndex(meta)
    /\ UNCHANGED <<file, journal, currentOffset, meta, frame, mem, got, rf,
                   hist, last, stopped, onlyAdds, lastSet, nsets>>

\* The process stops: FileJournal._destroy() between two calls, or the end
\* of the process at any point.  The files keep what was written; the
\* objects are gone.
Stop ==
    /\ pc # "closed"
    /\ stopped' = pc
    /\ pc' = "closed"
    /\ journal' = <<>>
    /\ currentOffset' = 0
    /\ meta' = EmptyMeta
    /\ metaSaved' = TRUE
    /\ frame' = NoFrame
    /\ mem' = <<>>
    /\ UNCHANGED <<file, metaFile, tmpFile, got, rf, hist, last, onlyAdds,
                   durable, lastSet, nsets>>

---------------------------------------------------------------------------
(* The journal driven by its caller *)

Init ==
    /\ file = NoFile
    /\ metaFile = NoFile
    /\ tmpFile = NoFile
    /\ pc = "closed"
    /\ journal = <<>>
    /\ currentOffset = 0
    /\ meta = EmptyMeta
    /\ metaSaved = TRUE
    /\ frame = NoFrame
    /\ mem = <<>>
    /\ got = NoGot
    /\ rf = NoRF
    /\ hist = <<>>
    /\ last = NoCall
    /\ stopped = "ready"
    /\ onlyAdds = TRUE
    /\ durable = 1
    /\ lastSet = [has |-> FALSE, v |-> 0]
    /\ nsets = 0

Next ==
    \/ \E inPlace \in BOOLEAN : FJ_init(inPlace)
    \/ \E entry \in Entries, inPlace \in BOOLEAN :
          Len(journal) < MaxLen /\ add_call(entry, inPlace)
    \/ add_return
    \/ clear
    \/ \E entryFrom \in 0..(Len(journal) + 1) : deleteEntriesFrom_call(entryFrom)
    \/ deleteEntriesFrom_loop
    \/ deleteEntriesFrom_return
    \/ \E entryTo \in 0..(Len(journal) + 1) : deleteEntriesTo_call(entryTo)
    \/ \E inPlace \in BOOLEAN : deleteEntriesTo_loop(inPlace)
    \/ nsets < MaxSets /\ setRaftCommitIndex(7)
    \/ onOneSecondTimer_call
    \/ storeMeta_write
    \/ storeMeta_move
    \/ Stop

Spec == Init /\ [][Next]_vars

---------------------------------------------------------------------------
(* The metadata of the journal driven by its caller *)

NextMeta ==
    \/ \E inPlace \in BOOLEAN : FJ_init(inPlace)
    \/ \E v \in CommitValues : setRaftCommitIndex(v)
    \/ onOneSecondTimer_call
    \/ storeMeta_write
    \/ storeMeta_move
    \/ storeMeta_move_fails
    \/ onOneSecondTimer_raised
    \/ Stop

SpecMeta == Init /\ [][NextMeta]_vars

---------------------------------------------------------------------------
(* Reads by position on both journals *)

Positions == (0 - (MaxLen + 1))..(MaxLen + 1)

\* journal[item] on the FileJournal and on the MemoryJournal.
getitem(item) ==
    /\ pc = "ready"
    /\ got' = [called |-> TRUE, item |-> item,
               fileList |-> journal, memList |-> mem,
               file |-> FJ_getitem(journal, item),
               mem |-> MJ_getitem(mem, item)]
    /\ UNCHANGED <<file, metaFile, tmpFile, pc, journal, currentOffset, meta,
                   metaSaved, frame, mem, rf, hist, last, stopped, onlyAdds,
                   durable, lastSet, nsets>>

\* The caller builds the two journals and then reads them.
NextRead ==
    \/ ~got.called /\ \E inPlace \in BOOLEAN : FJ_init(inPlace)
    \/ ~got.called /\ \E entry \in Entries, inPlace \in BOOLEAN :
          Len(journal) < MaxLen /\ add_call(entry, inPlace)
    \/ ~got.called /\ add_return
    \/ ~got.called /\ clear
    \/ ~got.called /\ Stop
    \/ \E item \in Positions : getitem(item)

SpecRead == Init /\ [][NextRead]_vars

---------------------------------------------------------------------------
(* The constructor on a journal file with a damaged size field *)

\* The records of a log, as add writes them one after the other.
RECURSIVE RecordsOf(_)
RecordsOf(log) ==
    IF log = <<>> THEN <<>>
    ELSE RecordBytes(CmdData(Head(log))) \o RecordsOf(Tail(log))

\* The journal file a process leaves that has added the entries of log.
JournalFileOf(log) ==
    LET records == RecordsOf(log)
        used == SubSeq(getDefaultHeader, 1, LAST_RECORD_OFFSET_OFFSET)
                    \o pack_I(FIRST_RECORD_OFFSET + Len(records)) \o records
    IN  used \o Zeros(initialSize - Len(used))

\* The offset of record r (from 1) of the file of log.
RecordOffset(log, r) == FIRST_RECORD_OFFSET + Len(RecordsOf(SubSeq(log, 1, r - 1)))

Logs == UNION { [1..n -> Entries] : n \in 1..MaxLen }

\* The values a damaged leading size field holds.
DamagedSizes == {0, 15, 16, 17, 18, 19, 50, 2000}

DamagedFiles ==
    { FileOf(mm_setslice(JournalFileOf(log), RecordOffset(log, r), pack_I(size))) :
        log \in Logs, r \in 1..MaxLen, size \in DamagedSizes }

InitOpen ==
    /\ file \in DamagedFiles
    /\ metaFile = NoFile
    /\ tmpFile = NoFile
    /\ pc = "closed"
    /\ journal = <<>>
    /\ currentOffset = 0
    /\ meta = EmptyMeta
    /\ metaSaved = TRUE
    /\ frame = NoFrame
    /\ mem = <<>>
    /\ got = NoGot
    /\ rf = NoRF
    /\ hist = <<>>
    /\ last = NoCall
    /\ stopped = "ready"
    /\ onlyAdds = FALSE
    /\ durable = 1
    /\ lastSet = [has |-> FALSE, v |-> 0]
    /\ nsets = 0

NextOpen == \E inPlace \in BOOLEAN : FJ_init(inPlace)

SpecOpen == InitOpen /\ [][NextOpen]_vars

---------------------------------------------------------------------------
(* Tail truncation of a long log, with stops on the way *)

\* The log of n entries (b"x", 1, 1), (b"yy", 2, 1), (b"x", 3, 1), ...
TruncLog(n) ==
    [i \in 1..n |-> IF i % 2 = 1 THEN <<CmdX, i, 1>> ELSE <<CmdYY, i, 1>>]

TruncLogs == { TruncLog(n) : n \in (MaxTruncLen - 2)..MaxTruncLen }

InitTrunc ==
    /\ \E log \in TruncLogs : file = FileOf(JournalFileOf(log)) /\ hist = log
    /\ metaFile = NoFile
    /\ tmpFile = NoFile
    /\ pc = "closed"
    /\ journal = <<>>
    /\ currentOffset = 0
    /\ meta = EmptyMeta
    /\ metaSaved = TRUE
    /\ frame = NoFrame
    /\ mem = <<>>
    /\ got = NoGot
    /\ rf = NoRF
    /\ last = NoCall
    /\ stopped = "ready"
    /\ onlyAdds = TRUE
    /\ durable = 1
    /\ lastSet = [has |-> FALSE, v |-> 0]
    /\ nsets = 0

NextTrunc ==
    \/ \E inPlace \in BOOLEAN : FJ_init(inPlace)
    \/ \E entryFrom \in 0..Len(journal) : deleteEntriesFrom_call(entryFrom)
    \/ deleteEntriesFrom_loop
    \/ deleteEntriesFrom_return
    \/ Stop

SpecTrunc == InitTrunc /\ [][NextTrunc]_vars

---------------------------------------------------------------------------
(* Adds that make the journal file grow *)

\* A command of n bytes.
CmdOfSize(n) == [i \in 1..n |-> 120]

\* Entries whose records fit the file as it is, fit it once its size has
\* doubled, and do not fit it then either.
GrowEntries ==
    { <<CmdX, 1, 1>>, <<CmdOfSize(1000), 2, 1>>, <<CmdOfSize(3000), 3, 1>> }

NextGrow ==
    \/ \E inPlace \in BOOLEAN : FJ_init(inPlace)
    \/ \E entry \in GrowEntries, inPlace \in BOOLEAN :
          Len(journal) < MaxGrowLen /\ add_call(entry, inPlace)
    \/ \E entry \in GrowEntries :
          Len(journal) < MaxGrowLen /\ add_call_grow_fails(entry)
    \/ add_return
    \/ Stop

SpecGrow == Init /\ [][NextGrow]_vars

---------------------------------------------------------------------------
(* The constructor on metadata files of all kinds *)

\* No file, an empty one, a cut one, one of other bytes, one that cannot be
\* read, and two that storeMeta has written.
MetaFiles ==
    { NoFile, FileOf(<<>>), FileOf(<<1>>), FileOf(<<2, 9>>),
      UnreadableFileOf(dumps(MetaWith(7))),
      FileOf(dumps(MetaWith(7))), FileOf(dumps(EmptyMeta)) }

InitLoad ==
    /\ \/ file = NoFile /\ hist = <<>>
       \/ \E log \in Logs : file = FileOf(JournalFileOf(log)) /\ hist = log
    /\ metaFile \in MetaFiles
    /\ tmpFile = NoFile
    /\ pc = "closed"
    /\ journal = <<>>
    /\ currentOffset = 0
    /\ meta = EmptyMeta
    /\ metaSaved = TRUE
    /\ frame = NoFrame
    /\ mem = <<>>
    /\ got = NoGot
    /\ rf = NoRF
    /\ last = NoCall
    /\ stopped = "ready"
    /\ onlyAdds = TRUE
    /\ durable = 1
    /\ lastSet = [has |-> FALSE, v |-> 0]
    /\ nsets = 0

NextLoad ==
    \/ \E inPlace \in BOOLEAN : FJ_init(inPlace)
    \/ Stop

SpecLoad == InitLoad /\ [][NextLoad]_vars

---------------------------------------------------------------------------
(* A new MemoryJournal and a new FileJournal given the same calls *)

NextEquiv ==
    \/ \E inPlace \in BOOLEAN : FJ_init(inPlace)
    \/ \E entry \in Entries, inPlace \in BOOLEAN :
          Len(journal) < MaxLen /\ add_call(entry, inPlace)
    \/ add_return
    \/ clear
    \/ \E entryFrom \in 0..Len(journal) : deleteEntriesFrom_call(entryFrom)
    \/ deleteEntriesFrom_loop
    \/ deleteEntriesFrom_return
    \/ \E entryTo \in 0..Len(journal) : deleteEntriesTo_call(entryTo)
    \/ \E inPlace \in BOOLEAN : deleteEntriesTo_loop(inPlace)

SpecEquiv == Init /\ [][NextEquiv]_vars

---------------------------------------------------------------------------
(* Adds with stops at every point of them *)

\* The numbers of bytes of a record that are in the file when the process
\* ends inside the copy: the leading size only, and all but the last byte.
TornLengths(entry) == {4, Len(RecordBytes(CmdData(entry))) - 1}

NextAppend ==
    \/ \E inPlace \in BOOLEAN : FJ_init(inPlace)
    \/ \E entry \in Entries, inPlace \in BOOLEAN :
          Len(journal) < MaxLen /\ add_call(entry, inPlace)
    \/ \E entry \in Entries : \E n \in TornLengths(entry) :
          Len(journal) < MaxLen /\ add_call_torn(entry, n)
    \/ add_return
    \/ clear
    \/ Stop

SpecAppend == Init /\ [][NextAppend]_vars

---------------------------------------------------------------------------
(* A ResizableFile on its own *)

\* The bytes 1, 2, ..., n
Bytes(n) == [i \in 1..n |-> i]

\* ResizableFile(fileName, initialSize, resizeFactor, defaultContent) on a
\* path that holds no file.
RF_new(initSize, factor, defaultContent, inPlace) ==
    /\ ~rf.open /\ ~rf.raised
    /\ LET made == RF_init(NoFile, initSize, defaultContent, inPlace)
       IN  rf' = [rf EXCEPT !.open = ~made.raised, !.mm = made.mm,
                            !.factor = factor, !.raised = made.raised,
                            !.inPlace = inPlace]
    /\ UNCHANGED <<file, metaFile, tmpFile, pc, journal, currentOffset, meta,
                   metaSaved, frame, mem, got, hist, last, stopped, onlyAdds,
                   durable, lastSet, nsets>>

\* write(offset, values) on the ResizableFile.
RF_write_call(offset, values, inPlace) ==
    /\ rf.open
    /\ LET written == RF_write(rf.mm, offset, values, rf.factor, inPlace)
       IN  rf' = [rf EXCEPT !.mm = written.mm, !.wrote = TRUE,
                            !.offset = offset, !.values = values,
                            !.raised = written.raised, !.inPlace = inPlace]
    /\ UNCHANGED <<file, metaFile, tmpFile, pc, journal, currentOffset, meta,
                   metaSaved, frame, mem, got, hist, last, stopped, onlyAdds,
                   durable, lastSet, nsets>>

NextRF ==
    \/ \E initSize \in {2, 4}, factor \in {<<2, 1>>, <<3, 2>>},
          defaultContent \in {NoFile, FileOf(<<9>>)}, inPlace \in BOOLEAN :
          RF_new(initSize, factor, defaultContent, inPlace)
    \/ \E offset \in 0..MaxOffset, n \in {1, 2, 7}, inPlace \in BOOLEAN :
          Len(rf.mm) < MaxCapacity /\ RF_write_call(offset, Bytes(n), inPlace)

SpecRF == Init /\ [][NextRF]_vars

---------------------------------------------------------------------------
(* Properties of the journal *)

\* The log a reopening of the journal file reads back.
Reopened(f) == ReplayFile(f.data)

\* The first byte after the append cursor belongs to a record no longer in
\* the log.
GarbageAtCursor == file.data[currentOffset + 1] # 0

\* C1 (round trip): when a journal file that only add calls have written is
\* closed and opened again, the mirror read back has as many entries as
\* adds were made and holds, at every position, the entry of that add.
C1_RoundTrip ==
    (pc = "ready" /\ last.op = "open" /\ last.arg = 1 /\ onlyAdds)
        => /\ Len(journal) = Len(hist)
           /\ \A p \in 1..Len(hist) : journal[p] = hist[p]

C1_Witness ==
    /\ pc = "ready" /\ last.op = "open" /\ last.arg = 1 /\ onlyAdds
    /\ journal = << <<CmdX, 1, 1>>, <<CmdYY, 2, 1>> >>

\* C2 (tail truncation): when deleteEntriesFrom(k) returns on a log of n >= k
\* entries, the mirror holds exactly the first k entries of that log, and
\* so does the log a reopening reads back from the file.
C2_TailTruncation ==
    [][(pc = "deleteEntriesFrom" /\ pc' = "ready" /\ last.arg <= Len(hist))
          => /\ Len(journal') = last.arg
             /\ journal' = SubSeq(hist, 1, last.arg)
             /\ ~Reopened(file').raised
             /\ Reopened(file').journal = SubSeq(hist, 1, last.arg)]_vars

C2_Witness ==
    /\ pc = "ready" /\ last.op = "deleteEntriesFrom" /\ last.arg = 1
    /\ journal = << <<CmdYY, 2, 1>> >>
    /\ GarbageAtCursor

\* The step on which deleteEntriesTo returns: at once when it keeps
\* nothing, else with the return of its last add.
DeleteEntriesToReturns ==
    \/ pc = "ready" /\ pc' = "ready" /\ \E k \in 0..(Len(journal) + 1) :
                                             deleteEntriesTo_call(k)
    \/ pc = "add" /\ frame.inFor /\ pc' = "ready"

\* A step inside a call of deleteEntriesTo.
DeleteEntriesToSteps ==
    \/ pc = "ready" /\ \E k \in 0..(Len(journal) + 1) : deleteEntriesTo_call(k)
    \/ pc = "deleteEntriesTo" /\ pc' = "add"
    \/ pc = "add" /\ frame.inFor /\ pc' # "closed"

\* C3 (head compaction): when deleteEntriesTo(k) returns on a log of n >= k
\* entries, the mirror holds the n-k entries of that log from position k
\* on, and so does the log a reopening reads back; and no step of the call
\* changes the commit index, the metadata, the dirty flag or the metadata
\* files.
C3_HeadCompaction ==
    /\ [][(DeleteEntriesToReturns /\ last'.arg <= Len(hist))
             => /\ Len(journal') = Len(hist) - last'.arg
                /\ journal' = SubSeq(hist, last'.arg + 1, Len(hist))
                /\ ~Reopened(file').raised
                /\ Reopened(file').journal = SubSeq(hist, last'.arg + 1, Len(hist))
          ]_vars
    /\ [][DeleteEntriesToSteps
             => /\ getRaftCommitIndex(meta') = getRaftCommitIndex(meta)
                /\ UNCHANGED <<meta, metaSaved, metaFile, tmpFile>>]_vars

C3_Witness ==
    /\ pc = "ready" /\ last.op = "deleteEntriesTo" /\ last.arg = 1
    /\ journal = << <<CmdX, 1, 1>> >>
    /\ hist = journal
    /\ getRaftCommitIndex(meta) = 7 /\ metaFile.exists

\* C4 (atomic head compaction): when the process stops inside
\* deleteEntriesTo(k), a reopening reads back either the whole log of
\* before the call or that log from position k on.
C4_CompactionAtomic ==
    (pc = "closed" /\ last.op = "deleteEntriesTo"
        /\ stopped \in {"deleteEntriesTo", "add"})
        => /\ ~Reopened(file).raised
           /\ Reopened(file).journal \in {hist, KeptEntries(hist, last.arg)}

\* C5 (mirror and disk agree): whenever a call has returned, the mirror
\* equals, in count and content, the records a replay of the file reads
\* from the first record's offset to the offset stored in the header.
C5_MirrorEqualsDisk ==
    pc = "ready"
        => /\ ~Reopened(file).raised
           /\ Len(Reopened(file).journal) = Len(journal)
           /\ Reopened(file).journal = journal

C5_Witness ==
    /\ pc = "ready" /\ last.op = "deleteEntriesTo"
    /\ Len(journal) = 1
    /\ GarbageAtCursor

\* C6 (commit index): a journal on which setRaftCommitIndex was called in
\* this process returns the value of the latest call; one on which it was
\* not returns the value stored by the last completed tick that found the
\* metadata dirty, in this process or an earlier one, and 1 when there was
\* no such tick (so a new journal returns 1).
C6_CommitIndex ==
    pc \in {"ready", "storeMeta_write", "storeMeta"}
        => /\ lastSet.has => getRaftCommitIndex(meta) = lastSet.v
           /\ ~lastSet.has => getRaftCommitIndex(meta) = durable
           /\ (~lastSet.has /\ ~metaFile.exists) => getRaftCommitIndex(meta) = 1

C6_Witness ==
    /\ pc = "ready" /\ last.op = "open" /\ last.arg = 1
    /\ ~lastSet.has
    /\ getRaftCommitIndex(meta) = 7
    /\ tmpFile.exists

\* C7 (clear): after clear() the journal has no entries and a reopening
\* reads back an empty log; a clear() after a clear() changes neither the
\* mirror nor the append cursor nor the offset stored in the header.
C7_Clear ==
    /\ []((pc = "ready" /\ last.op = "clear")
             => /\ Len(journal) = 0
                /\ ~Reopened(file).raised
                /\ Reopened(file).journal = <<>>)
    /\ [][(last.op = "clear" /\ clear)
             => /\ journal' = journal
                /\ currentOffset' = currentOffset
                /\ getLastRecordOffset(file'.data) = getLastRecordOffset(file.data)
          ]_vars

C7_Witness ==
    /\ pc = "ready" /\ last.op = "clear" /\ last.again
    /\ file.data[FIRST_RECORD_OFFSET + 1] # 0

\* C8 as stated (reads out of range): __getitem__ of either journal raises
\* for every position that is not in 0..len-1, the negative ones included.
C8_OutOfRangeRaises ==
    got.called
        => /\ (got.item < 0 \/ got.item >= Len(got.fileList)) => got.file.raised
           /\ (got.item < 0 \/ got.item >= Len(got.memList)) => got.mem.raised

\* What __getitem__(item) gives on a list: an error for item >= len and for
\* item < -len, the entry at item for 0 <= item < len, and the entry at
\* len + item for -len <= item < 0.
ReadsAsPython(list, item, result) ==
    /\ (item >= Len(list) \/ item < 0 - Len(list)) => result.raised
    /\ (item >= 0 /\ item < Len(list))
          => ~result.raised /\ result.value = <<list[item + 1]>>
    /\ (item < 0 /\ item >= 0 - Len(list))
          => ~result.raised /\ result.value = <<list[Len(list) + item + 1]>>

\* C8 as amended (reads out of range): __getitem__ of either journal raises
\* for every position >= len or < -len, and answers a position in -len..-1
\* with the entry at len + position; it never answers with a default.
C8_OutOfRangeAmended ==
    got.called
        => /\ ReadsAsPython(got.fileList, got.item, got.file)
           /\ ReadsAsPython(got.memList, got.item, got.mem)

C8_Witness ==
    /\ got.called
    /\ got.item = 0 - 1
    /\ Len(got.fileList) = 2 /\ ~got.file.raised
    /\ Len(got.memList) = 1 /\ ~got.mem.raised

\* Some record on the way from the first record's offset has a leading size
\* that puts its end after the offset stored in the header.
RECURSIVE OverrunFrom(_, _, _)
OverrunFrom(mm, offset, lastRecordOffset) ==
    /\ offset < lastRecordOffset
    /\ LET size == unpack_I(RF_read(mm, offset, 4))
       IN  \/ offset + size + 8 > lastRecordOffset
           \/ OverrunFrom(mm, offset + size + 8, lastRecordOffset)

RecordOverruns(mm) ==
    OverrunFrom(mm, FIRST_RECORD_OFFSET, getLastRecordOffset(mm))

\* C9 (damaged file): the constructor fails on a file in which a record's
\* leading size puts the record's end after the offset in the header.
C9_FailFast ==
    (last.op = "open" /\ pc # "closed" /\ RecordOverruns(file.data))
        => pc = "raised"

\* C10 (growth): every write on a ResizableFile succeeds, leaves a capacity
\* of at least offset + len(values), and is read back as written.
C10_Growth ==
    rf.wrote
        => /\ ~rf.raised
           /\ Len(rf.mm) >= rf.offset + Len(rf.values)
           /\ RF_read(rf.mm, rf.offset, Len(rf.values)) = rf.values

\* The metadata files a completed storeMeta leaves.
CompleteMetaFiles == { FileOf(dumps(MetaWith(v))) : v \in CommitValues }

\* C11 (atomic metadata replace): at every point, a stop inside storeMeta
\* included, the metadata path holds no file or a complete serialized
\* mapping; and the only step that changes what it holds is the move, which
\* puts the complete new metadata there, so that before it the path holds
\* what it held when storeMeta was called.
C11_AtomicReplace ==
    /\ [](metaFile = NoFile \/ metaFile \in CompleteMetaFiles)
    /\ [][(metaFile' # metaFile)
             => /\ pc = "storeMeta" /\ pc' = "ready"
                /\ metaFile' = FileOf(dumps(meta))]_vars

C11_Witness ==
    /\ pc = "closed" /\ stopped = "storeMeta_write"
    /\ tmpFile = FileOf(<<>>)
    /\ metaFile = FileOf(dumps(MetaWith(7)))
    /\ lastSet.has /\ lastSet.v = 9

\* C15 (dirty flag): setRaftCommitIndex leaves the flag dirty; the flag
\* turns clean only on the step on which storeMeta has moved the new
\* metadata into place; a move that fails surfaces the error, leaves the
\* metadata file and the in-memory metadata as they were and the flag
\* dirty, and the next tick starts the store again; and whenever the flag
\* is clean the in-memory metadata equal what the metadata file holds.
C15_DirtyFlag ==
    /\ []((pc \notin {"closed", "raised"} /\ metaSaved)
             => meta = getMeta(metaFile))
    /\ [][(\E v \in CommitValues : setRaftCommitIndex(v)) => ~metaSaved']_vars
    /\ [][(~metaSaved /\ metaSaved' /\ pc' # "closed")
             => /\ pc = "storeMeta" /\ pc' = "ready"
                /\ metaFile' = FileOf(dumps(meta))]_vars
    /\ [][(pc = "storeMeta" /\ pc' \notin {"ready", "closed"})
             => /\ pc' = "tickRaised"
                /\ metaFile' = metaFile /\ meta' = meta /\ ~metaSaved']_vars
    /\ [][(pc = "tickRaised" /\ pc' = "ready") => ~metaSaved']_vars
    /\ [][(~metaSaved /\ onOneSecondTimer_call) => pc' = "storeMeta_write"]_vars

C15_Witness ==
    /\ pc = "tickRaised"
    /\ ~metaSaved
    /\ metaFile = FileOf(dumps(MetaWith(7)))
    /\ meta = MetaWith(9)

\* The sum over the entries of a log of record size + 8, the record size
\* being 16 bytes of index and term and the bytes of the command.
RECURSIVE SumOfRecords(_)
SumOfRecords(log) ==
    IF log = <<>> THEN 0
    ELSE (16 + Len(Head(log)[1])) + 8 + SumOfRecords(Tail(log))

\* C12 (cursor and checkpoint): after the constructor and after every add,
\* clear, deleteEntriesFrom and deleteEntriesTo has returned, the append
\* cursor is FIRST_RECORD_OFFSET plus the sum over the entries of the log
\* of record size + 8, and the offset stored in the header equals the
\* cursor; after an add has returned, a reopening reads back the log with
\* the added entry as its last.
C12_CursorCheckpoint ==
    pc = "ready"
        => /\ currentOffset = FIRST_RECORD_OFFSET + SumOfRecords(journal)
           /\ getLastRecordOffset(file.data) = currentOffset
           /\ last.op = "add"
                 => /\ ~Reopened(file).raised
                    /\ Reopened(file).journal = hist
                    /\ hist # <<>> /\ <<hist[Len(hist)]>> = last.entry

C12_Witness ==
    /\ pc = "ready" /\ last.op = "add"
    /\ journal = << <<CmdX, 1, 1>> >>
    /\ currentOffset = 65
    /\ GarbageAtCursor

\* The offset at which the first m records of the log before the call end.
Boundary(m) == RecordOffset(hist, m + 1)

\* The number of entries of the log before the call that the walk of
\* deleteEntriesFrom has not stepped back over.
Walked == Len(hist) - frame.removedEntries

\* C13 (checkpoint staleness in tail truncation): at every step inside
\* deleteEntriesFrom(k) on a log of n >= k entries the offset stored in the
\* header is the end of the first m records of that log for an m from the
\* position the walk has reached up to 9 records after it, and a reopening
\* reads back those m entries; after a stop inside the call a reopening
\* reads back the first m entries for an m in k..n; and when the call
\* returns the stored offset is the end of the first k records and a
\* reopening reads back exactly the first k entries.
C13_BoundedStaleness ==
    /\ []((pc = "deleteEntriesFrom" /\ last.arg <= Len(hist))
             => \E m \in Walked..Min(Walked + 9, Len(hist)) :
                   /\ m >= last.arg
                   /\ getLastRecordOffset(file.data) = Boundary(m)
                   /\ ~Reopened(file).raised
                   /\ Reopened(file).journal = SubSeq(hist, 1, m))
    /\ []((pc = "closed" /\ stopped = "deleteEntriesFrom"
               /\ last.op = "deleteEntriesFrom" /\ last.arg <= Len(hist))
             => \E m \in last.arg..Len(hist) :
                   /\ ~Reopened(file).raised
                   /\ Reopened(file).journal = SubSeq(hist, 1, m))
    /\ [][(pc = "deleteEntriesFrom" /\ pc' = "ready" /\ last.arg <= Len(hist))
             => /\ getLastRecordOffset(file'.data) = Boundary(last.arg)
                /\ currentOffset' = Boundary(last.arg)
                /\ ~Reopened(file').raised
                /\ Reopened(file').journal = SubSeq(hist, 1, last.arg)]_vars

C13_Witness ==
    /\ pc = "deleteEntriesFrom"
    /\ Len(hist) = 12 /\ last.arg = 0
    /\ frame.removedEntries = 11
    /\ Len(Reopened(file).journal) = 2

\* C14 (failed growth): when add raises because the file cannot take the
\* record, the mirror, the append cursor and the offset stored in the
\* header are those of before the call, and the mirror equals the log a
\* reopening reads back.
C14_GrowthFailure ==
    (pc = "raised" /\ last.op = "add")
        => /\ Len(journal) = Len(hist)
           /\ journal = hist
           /\ currentOffset = FIRST_RECORD_OFFSET + SumOfRecords(hist)
           /\ getLastRecordOffset(file.data) = currentOffset
           /\ ~Reopened(file).raised
           /\ Reopened(file).journal = journal

\* list is the start of other.
IsPrefix(list, other) ==
    Len(list) <= Len(other) /\ list = SubSeq(other, 1, Len(list))

\* list is the end of other.
IsSuffix(list, other) ==
    /\ Len(list) <= Len(other)
    /\ list = SubSeq(other, Len(other) - Len(list) + 1, Len(other))

\* C16 (entry order and immutability): in every state the index of the
\* entry at each position of the log is the index of the entry before it
\* plus 1; and every step leaves the entries as they are, appends to them,
\* or removes a run of them at the tail or at the head.
C16_EntryOrder ==
    /\ [](\A p \in 1..(Len(journal) - 1) : journal[p + 1][2] = journal[p][2] + 1)
    /\ [][\/ IsPrefix(journal, journal')
          \/ IsPrefix(journal', journal)
          \/ IsSuffix(journal', journal)]_vars

\* The metadata file is missing, cannot be read or cannot be parsed.
BadMetaFile(f) == ~f.exists \/ ~f.readable \/ loads_raises(f.data)

\* C17 (metadata load): getMeta gives the empty mapping for a metadata file
\* that is missing, cannot be read or cannot be parsed; a constructor that
\* finds such a file completes, with the metadata marked as saved, with
\* getRaftCommitIndex() = 1, and with the log of the journal file read back
\* in full.
C17_BestEffortLoad ==
    /\ BadMetaFile(metaFile) => getMeta(metaFile) = EmptyMeta
    /\ (last.op = "open" /\ pc # "closed" /\ BadMetaFile(metaFile))
          => /\ pc = "ready"
             /\ metaSaved
             /\ getRaftCommitIndex(meta) = 1
             /\ Len(journal) = Len(hist)
             /\ journal = hist

C17_Witness ==
    /\ pc = "ready" /\ last.op = "open"
    /\ metaFile = FileOf(<<2, 9>>)
    /\ journal = << <<CmdYY, 2, 1>>, <<CmdX, 1, 1>> >>

\* C18 (the two journals agree): after every add, clear,
\* deleteEntriesFrom(k) and deleteEntriesTo(k) with 0 <= k <= len, made on a
\* new MemoryJournal and on a new FileJournal alike, the two have the same
\* len() and give the same entry at every position.
C18_SameAsMemory ==
    pc = "ready"
        => /\ Len(journal) = Len(mem)
           /\ \A p \in 0..(Len(mem) - 1) :
                 FJ_getitem(journal, p) = MJ_getitem(mem, p)

C18_Witness ==
    /\ pc = "ready" /\ last.op = "deleteEntriesTo" /\ last.arg = 1
    /\ mem = << <<CmdX, 1, 1>> >>
    /\ file.data[FIRST_RECORD_OFFSET + 5] = 1
    /\ GarbageAtCursor

\* C19 (atomic append): when the process stops inside add (with the record
\* in part or in full in the file and the header not yet written) a
\* reopening reads back the log of before the add or that log followed by
\* the new entry; when it stops after add has returned, a reopening reads
\* back the log with the new entry as its last.
C19_AppendAtomic ==
    /\ (pc = "closed" /\ last.op = "add" /\ stopped = "add")
          => /\ ~Reopened(file).raised
             /\ Reopened(file).journal \in {hist, hist \o last.entry}
    /\ (pc = "closed" /\ last.op = "add" /\ stopped = "ready")
          => /\ ~Reopened(file).raised
             /\ Reopened(file).journal = hist
             /\ hist # <<>> /\ <<hist[Len(hist)]>> = last.entry

C19_Witness ==
    /\ pc = "closed" /\ last.op = "add" /\ stopped = "add"
    /\ hist = << <<CmdYY, 2, 1>> >>
    /\ last.entry = << <<CmdX, 1, 1>> >>
    /\ SubSeq(file.data, getLastRecordOffset(file.data) + 1,
                         getLastRecordOffset(file.data) + 24)
          = SubSeq(RecordBytes(CmdData(<<CmdX, 1, 1>>)), 1, 24)
    /\ file.data[getLastRecordOffset(file.data) + 25] = 0

\* A step of setRaftCommitIndex or of onOneSecondTimer.
MetadataSteps ==
    \/ \E v \in CommitValues : setRaftCommitIndex(v)
    \/ onOneSecondTimer_call
    \/ pc \in {"storeMeta_write", "storeMeta"} /\ pc' # "closed"

\* A step of add, clear, deleteEntriesFrom or deleteEntriesTo.
LogSteps ==
    \/ pc = "ready" /\ pc' = "add"
    \/ clear
    \/ pc = "ready" /\ pc' = "deleteEntriesFrom"
    \/ pc = "ready" /\ \E k \in 0..(Len(journal) + 1) : deleteEntriesTo_call(k)
    \/ pc \in {"add", "deleteEntriesFrom", "deleteEntriesTo"} /\ pc' # "closed"

\* C20 (log and metadata are independent): no step of setRaftCommitIndex or
\* onOneSecondTimer changes the entries, the append cursor, the journal
\* file or the offset stored in it, and getRaftCommitIndex gives the same
\* before and after a step on the log; no step of add, clear,
\* deleteEntriesFrom or deleteEntriesTo changes the in-memory metadata, the
\* dirty flag or the metadata files; and a tick with a clean flag changes
\* no file.
C20_Independence ==
    /\ [][MetadataSteps
             => /\ UNCHANGED <<journal, currentOffset, file>>
                /\ getLastRecordOffset(file'.data) = getLastRecordOffset(file.data)
          ]_vars
    /\ [][LogSteps
             => /\ UNCHANGED <<meta, metaSaved, metaFile, tmpFile>>
                /\ getRaftCommitIndex(meta') = getRaftCommitIndex(meta)]_vars
    /\ [][(metaSaved /\ onOneSecondTimer_call)
             => UNCHANGED <<file, metaFile, tmpFile>>]_vars

C20_Witness ==
    /\ pc = "deleteEntriesFrom" /\ frame.removedEntries = 1
    /\ ~metaSaved /\ meta = MetaWith(7)
    /\ Len(hist) = 2

====
